---- MODULE Spec2Model ----
\* Identity & session subsystem of the CyberArena platform:
\*   services/auth/internal/server/server.go   (session service)
\*   services/gateway/internal/middleware/auth.go + gateway main (perimeter gateway)
EXTENDS Integers, Sequences, FiniteSets, TLC

VARIABLES
    users,      \* profile store: set of [id, name] rows (users table)
    creds,      \* auth_credentials: user_id -> password hash
    ledger,     \* auth_refresh_tokens: token -> row
    clock,      \* time.Now()
    proc,       \* request handlers in flight: position and locals of each
    last,       \* response produced by the step just taken (NoResp if none)
    pwdRevoked, \* history: rows that existed for a user when SetPassword committed
    written,    \* history: user_id -> password of the last credential write that succeeded
    gw          \* outcome of the request the gateway handled last

vars == <<users, creds, ledger, clock, proc, last, pwdRevoked, written, gw>>

----------------------------------------------------------------------------
\* Bounds of the model

MaxTokens == 3      \* rows the ledger may hold
MaxClock  == 2      \* last clock value
JwtTTL    == 1      \* AUTH_JWT_TTL, in clock units
RefreshTTL == 1     \* AUTH_REFRESH_TTL, in clock units

Procs == {1, 2}     \* concurrent request handlers
Times == 0..MaxClock

----------------------------------------------------------------------------
\* Values

NoUser  == 0                     \* the empty user_id string
UserIds == {1, 2}
Names   == {"alice", "bob"}
Passwords == {"pw1", "pw2"}
NoTeam  == ""
Teams   == {"tm1"}

JwtSecret   == "dev-secret"
OtherSecret == "other-secret"

NoToken == <<"none", 0>>         \* the empty refresh-token string / NULL
UnknownToken == <<"rand", 0>>    \* a well-formed value that was never issued
RandToken(n) == <<"rand", n>>
TimeToken(now) == <<"time", now>>

NoAccess == [sub |-> NoUser, team_id |-> NoTeam, role |-> "", exp |-> 0,
             alg |-> "none", key |-> ""]
\* what a request carried and what its team lookup answered
NoLookup == [err |-> FALSE, team |-> NoTeam]
NoReq == [name |-> "", field |-> NoToken, cookie |-> NoToken, lookup |-> NoLookup]

\* no set-cookie header on the response
NoCookie == [name |-> "", value |-> NoToken, path |-> "", expires |-> 0,
             httpOnly |-> FALSE, secure |-> FALSE, sameSite |-> "", domain |-> ""]

NoResp == [op |-> "none", code |-> "none", user |-> NoUser, presented |-> NoToken,
           refresh |-> NoToken, access |-> NoAccess, team |-> NoTeam, password |-> "",
           faulted |-> FALSE, req |-> NoReq, setCookie |-> NoCookie]
Idle == [pc |-> "idle", userID |-> NoUser, tokenValue |-> NoToken, password |-> "",
         name |-> "", field |-> NoToken, cookie |-> NoToken]

Resp(op, code, user, presented, refresh, access, team) ==
    [op |-> op, code |-> code, user |-> user, presented |-> presented,
     refresh |-> refresh, access |-> access, team |-> team, password |-> "",
     faulted |-> FALSE, req |-> NoReq, setCookie |-> NoCookie]

Err(op, code, presented) == Resp(op, code, NoUser, presented, NoToken, NoAccess, NoTeam)

\* a response with the password the request carried and whether a storage,
\* hashing or random-source failure struck the call
With(resp, password, faulted) == [resp EXCEPT !.password = password, !.faulted = faulted]

\* a response with the name or the refresh token (field, cookie) the request
\* carried and the answer of the team lookup
For(resp, name, field, cookie, lookup) ==
    [resp EXCEPT !.req = [name |-> name, field |-> field, cookie |-> cookie,
                          lookup |-> lookup]]

----------------------------------------------------------------------------
\* Password hashing (bcrypt): the hash records what CompareHashAndPassword
\* can decide from it, the password it was derived from.

GenerateFromPassword(password) == [alg |-> "bcrypt", of |-> password]

\* variant: the result of the comparison is dropped
CompareHashAndPasswordIgnored(hash, password) == hash.alg = "bcrypt"

CompareHashAndPassword(hash, password) == hash.alg = "bcrypt" /\ hash.of = password

----------------------------------------------------------------------------
\* Access tokens (JWT, HS256).  A token is its header algorithm, its claims and
\* the key its signature was computed with.

NoExp == -1

\* variant: the token is signed from the registered claims alone
SignAccessTokenNoTeam(userID, teamID, now, secret) ==
    [sub |-> userID, team_id |-> NoTeam, role |-> "", exp |-> now + JwtTTL,
     alg |-> "HS256", key |-> secret]

\* variant: the claims carry the role of an administrator
SignAccessTokenWithRole(userID, teamID, now, secret) ==
    [sub |-> userID, team_id |-> teamID, role |-> "admin", exp |-> now + JwtTTL,
     alg |-> "HS256", key |-> secret]

\* claimsWithTeam + jwt.NewWithClaims(SigningMethodHS256) + SignedString(secret)
SignAccessToken(userID, teamID, now, secret) ==
    [sub |-> userID, team_id |-> teamID, role |-> "", exp |-> now + JwtTTL,
     alg |-> "HS256", key |-> secret]

\* variant: the key function returns the secret for any HMAC method
ParseWithClaimsAnyAlg(tok, secret, now) ==
    /\ tok.key = secret
    /\ (tok.exp # NoExp => now < tok.exp)

\* jwt.ParseWithClaims with the key function of ValidateToken, then the claims
\* validator of the library: exp, when present, must be strictly in the future.
ParseWithClaims(tok, secret, now) ==
    /\ tok.alg = "HS256"
    /\ tok.key = secret
    /\ (tok.exp # NoExp => now < tok.exp)

\* variant: the validator also asks the ledger for a live session of the subject
ValidateTokenLedger(tok, now) ==
    IF tok = NoAccess
    THEN [code |-> "InvalidArgument", user_id |-> NoUser, team_id |-> NoTeam]
    ELSE IF \/ ~ParseWithClaims(tok, JwtSecret, now)
            \/ tok.sub = NoUser
            \/ ~\E t \in DOMAIN ledger : ledger[t].user_id = tok.sub /\ ~ledger[t].revoked
    THEN [code |-> "Unauthenticated", user_id |-> NoUser, team_id |-> NoTeam]
    ELSE [code |-> "OK", user_id |-> tok.sub, team_id |-> tok.team_id]

\* Server.ValidateToken: code and the identity it returns
ValidateToken(tok, now) ==
    IF tok = NoAccess
    THEN [code |-> "InvalidArgument", user_id |-> NoUser, team_id |-> NoTeam]
    ELSE IF ~ParseWithClaims(tok, JwtSecret, now)
    THEN [code |-> "Unauthenticated", user_id |-> NoUser, team_id |-> NoTeam]
    ELSE IF tok.sub = NoUser
    THEN [code |-> "Unauthenticated", user_id |-> NoUser, team_id |-> NoTeam]
    ELSE [code |-> "OK", user_id |-> tok.sub, team_id |-> tok.team_id]

----------------------------------------------------------------------------
\* Refresh ledger

Tokens == DOMAIN ledger

Row(userID, expiresAt, parent) ==
    [user_id |-> userID, expires_at |-> expiresAt, revoked |-> FALSE,
     replaced_by_token |-> NoToken,
     parent |-> parent]      \* history: the token whose rotation inserted this row

\* generateOpaqueToken: 32 random bytes, or the clock when rand.Read fails
RandCount(l) == Cardinality({t \in DOMAIN l : t[1] = "rand"})

generateOpaqueToken(randOK, now, l) ==
    IF randOK THEN RandToken(RandCount(l) + 1) ELSE TimeToken(now)

\* the cookie configuration of the service's main: AUTH_REFRESH_COOKIE_NAME,
\* AUTH_REFRESH_COOKIE_SECURE, AUTH_REFRESH_COOKIE_DOMAIN
CookieName == "refresh_token"
CookieSecure == TRUE
CookieDomain == ""

\* the value as http.Cookie.String writes it: the octets of a base64url token
\* and of a decimal number are all cookie octets and are kept; an empty value
\* stays empty
sanitizeCookieValue(token) ==
    IF token[1] \in {"rand", "time"} THEN token ELSE NoToken

\* variant: a session cookie, the Expires attribute is left out
buildRefreshCookieSession(token, exp) ==
    [name |-> CookieName, value |-> sanitizeCookieValue(token), path |-> "/",
     expires |-> NoExp, httpOnly |-> TRUE, secure |-> CookieSecure,
     sameSite |-> "Lax", domain |-> CookieDomain]

\* Server.buildRefreshCookie (lines 252-266): the attributes of the directive
\* that Cookie.String formats; times are whole seconds, the resolution of the
\* Expires attribute
buildRefreshCookie(token, exp) ==
    [name |-> CookieName, value |-> sanitizeCookieValue(token), path |-> "/",
     expires |-> exp, httpOnly |-> TRUE, secure |-> CookieSecure,
     sameSite |-> "Lax", domain |-> CookieDomain]

\* grpc.SetHeader(ctx, metadata.Pairs("set-cookie", cookie)) on the response
SetHeader(resp, cookie) == [resp EXCEPT !.setCookie = cookie]

\* variant: the check looks at the expiry only
RefreshRejectedExpiryOnly(row, now) == now > row.expires_at

\* variant: the expiry test is inverted
RefreshRejectedInverted(row, now) ==
    row.revoked \/ ~(now > row.expires_at) \/ row.replaced_by_token # NoToken

\* the condition of line 191 that rejects a presented row
RefreshRejected(row, now) ==
    row.revoked \/ now > row.expires_at \/ row.replaced_by_token # NoToken

\* usable as section 3 of the design defines it
Usable(row, now) ==
    ~row.revoked /\ now < row.expires_at /\ row.replaced_by_token = NoToken

\* team lookup of Login and Refresh: GetUserTeam with a 2s timeout
TeamLookups == {[err |-> TRUE, team |-> NoTeam], [err |-> FALSE, team |-> NoTeam]}
                  \cup {[err |-> FALSE, team |-> t] : t \in Teams}

ResolveTeam(lookup) == IF ~lookup.err /\ lookup.team # NoTeam THEN lookup.team ELSE NoTeam

\* variant: statements run outside a transaction, a failed insert or commit
\* leaves the update of the presented row in place
RotateTxNoRollback(l, tokenValue, newRefresh, newRow, fail) ==
    LET updated == [l EXCEPT ![tokenValue].revoked = TRUE,
                             ![tokenValue].replaced_by_token = newRefresh]
    IN  IF fail \in {"begin", "exec1"}
        THEN [ok |-> FALSE, ledger |-> l]
        ELSE IF fail # "none" \/ newRefresh \in DOMAIN l
        THEN [ok |-> FALSE, ledger |-> updated]
        ELSE [ok |-> TRUE, ledger |-> updated @@ (newRefresh :> newRow)]

\* variant: the update records the replacement and writes revoked = false
RotateTxClearsRevoked(l, tokenValue, newRefresh, newRow, fail) ==
    LET updated == [l EXCEPT ![tokenValue].revoked = FALSE,
                             ![tokenValue].replaced_by_token = newRefresh]
        conflict == newRefresh \in DOMAIN l
    IN  IF fail # "none" \/ conflict
        THEN [ok |-> FALSE, ledger |-> l]
        ELSE [ok |-> TRUE, ledger |-> updated @@ (newRefresh :> newRow)]

\* variant: the error of the insert is dropped and the update is committed
RotateTxInsertErrorIgnored(l, tokenValue, newRefresh, newRow, fail) ==
    LET updated == [l EXCEPT ![tokenValue].revoked = TRUE,
                             ![tokenValue].replaced_by_token = newRefresh]
        conflict == newRefresh \in DOMAIN l
    IN  IF fail = "exec2" \/ conflict
        THEN [ok |-> FALSE, ledger |-> updated]
        ELSE IF fail # "none"
        THEN [ok |-> FALSE, ledger |-> l]
        ELSE [ok |-> TRUE, ledger |-> updated @@ (newRefresh :> newRow)]

\* The rotation transaction of Refresh (lines 218-233): update of the presented
\* row, insert of the replacement, commit; any failure rolls everything back.
Faults == {"none", "hash", "begin", "exec1", "exec2", "commit"}

RotateTx(l, tokenValue, newRefresh, newRow, fail) ==
    LET updated == [l EXCEPT ![tokenValue].revoked = TRUE,
                             ![tokenValue].replaced_by_token = newRefresh]
        conflict == newRefresh \in DOMAIN l
    IN  IF fail # "none" \/ conflict
        THEN [ok |-> FALSE, ledger |-> l]
        ELSE [ok |-> TRUE, ledger |-> updated @@ (newRefresh :> newRow)]

\* variant: the password is replaced, the user's rows are left alone
SetPasswordTxNoRevoke(c, l, userID, hash, fail) ==
    IF fail # "none"
    THEN [ok |-> FALSE, creds |-> c, ledger |-> l]
    ELSE [ok |-> TRUE,
          creds |-> [u \in DOMAIN c \cup {userID} |-> IF u = userID THEN hash ELSE c[u]],
          ledger |-> l]

\* variant: no transaction, the upsert stays when a later statement fails
SetPasswordTxPartial(c, l, userID, hash, fail) ==
    LET upserted == [u \in DOMAIN c \cup {userID} |-> IF u = userID THEN hash ELSE c[u]]
    IN  IF fail \in {"begin", "exec1"}
        THEN [ok |-> FALSE, creds |-> c, ledger |-> l]
        ELSE IF fail # "none"
        THEN [ok |-> FALSE, creds |-> upserted, ledger |-> l]
        ELSE [ok |-> TRUE, creds |-> upserted,
              ledger |-> [t \in DOMAIN l |->
                            IF l[t].user_id = userID /\ ~l[t].revoked
                            THEN [l[t] EXCEPT !.revoked = TRUE] ELSE l[t]]]

\* variant: the user's rows are deleted
SetPasswordTxDelete(c, l, userID, hash, fail) ==
    IF fail # "none"
    THEN [ok |-> FALSE, creds |-> c, ledger |-> l]
    ELSE [ok |-> TRUE,
          creds |-> [u \in DOMAIN c \cup {userID} |-> IF u = userID THEN hash ELSE c[u]],
          ledger |-> [t \in {x \in DOMAIN l : l[x].user_id # userID} |-> l[t]]]

\* variant: a plain insert, which fails on the primary key when the user has
\* a credential row
SetPasswordTxInsertOnly(c, l, userID, hash, fail) ==
    IF fail # "none" \/ userID \in DOMAIN c
    THEN [ok |-> FALSE, creds |-> c, ledger |-> l]
    ELSE [ok |-> TRUE,
          creds |-> [u \in DOMAIN c \cup {userID} |-> IF u = userID THEN hash ELSE c[u]],
          ledger |-> [t \in DOMAIN l |->
                        IF l[t].user_id = userID /\ ~l[t].revoked
                        THEN [l[t] EXCEPT !.revoked = TRUE] ELSE l[t]]]

\* The transaction of SetPassword (lines 74-93): upsert of the credential,
\* revocation of the user's rows, commit.
SetPasswordTx(c, l, userID, hash, fail) ==
    IF fail # "none"
    THEN [ok |-> FALSE, creds |-> c, ledger |-> l]
    ELSE [ok |-> TRUE,
          creds |-> [u \in DOMAIN c \cup {userID} |-> IF u = userID THEN hash ELSE c[u]],
          ledger |-> [t \in DOMAIN l |->
                        IF l[t].user_id = userID /\ ~l[t].revoked
                        THEN [l[t] EXCEPT !.revoked = TRUE] ELSE l[t]]]

----------------------------------------------------------------------------
\* Perimeter gateway: middleware.AuthMiddleware and the metadata annotator
\* of the gateway's main.

GatewaySecret == "dev-secret"

\* Request paths and header values are sequences of pieces of text; a piece of
\* a header is a word, a space or a signed access token.
PublicPaths == << <<"/v1", "/auth", "/login">>,
                  <<"/v1", "/auth", "/register">>,
                  <<"/v1", "/auth", "/refresh">> >>

AdminPrefix == <<"/v1", "/admin", "/">>

HasPrefix(s, prefix) ==
    Len(prefix) <= Len(s) /\ SubSeq(s, 1, Len(prefix)) = prefix

Word(w) == [k |-> "word", w |-> w, tok |-> NoAccess]
Space   == [k |-> "space", w |-> " ", tok |-> NoAccess]
Jwt(t)  == [k |-> "jwt", w |-> "", tok |-> t]

\* strings.SplitN(s, " ", 2)
SplitN2(s) ==
    IF \E i \in 1..Len(s) : s[i] = Space
    THEN LET i == CHOOSE j \in 1..Len(s) :
                     s[j] = Space /\ \A m \in 1..(j - 1) : s[m] # Space
         IN  <<SubSeq(s, 1, i - 1), SubSeq(s, i + 1, Len(s))>>
    ELSE <<s>>

ToLower(w) == CASE w = "Bearer" -> "bearer"
                [] w = "BEARER" -> "bearer"
                [] OTHER -> w

\* strings.EqualFold(part, "Bearer")
EqualFoldBearer(part) ==
    Len(part) = 1 /\ part[1].k = "word" /\ ToLower(part[1].w) = "bearer"

\* a role claim whose JSON value is not a string (a number, an object)
NonStringRole == "<not a string>"

\* decoding the payload into Claims, whose Role field is a string; the
\* claimsWithTeam of the session service has no role field and skips the claim
DecodesIntoClaims(tok) == tok.role # NonStringRole

\* variant: a token without a role claim keeps its empty role
validateTokenNoDefault(tokenString, now) ==
    IF Len(tokenString) = 1 /\ tokenString[1].k = "jwt"
       /\ DecodesIntoClaims(tokenString[1].tok)
       /\ ParseWithClaims(tokenString[1].tok, GatewaySecret, now)
       /\ tokenString[1].tok.sub # NoUser
    THEN LET c == tokenString[1].tok IN
         [ok |-> TRUE, Subject |-> c.sub, TeamID |-> c.team_id, Role |-> c.role]
    ELSE [ok |-> FALSE, Subject |-> NoUser, TeamID |-> NoTeam, Role |-> ""]

\* AuthMiddleware.validateToken (lines 95-116): the claims, the role defaulted
\* to user, or an error
validateToken(tokenString, now) ==
    IF Len(tokenString) = 1 /\ tokenString[1].k = "jwt"
       /\ DecodesIntoClaims(tokenString[1].tok)
       /\ ParseWithClaims(tokenString[1].tok, GatewaySecret, now)
       /\ tokenString[1].tok.sub # NoUser
    THEN LET c == tokenString[1].tok IN
         [ok |-> TRUE, Subject |-> c.sub, TeamID |-> c.team_id,
          Role |-> IF c.role = "" THEN "user" ELSE c.role]
    ELSE [ok |-> FALSE, Subject |-> NoUser, TeamID |-> NoTeam, Role |-> ""]

NoCtx == [userID |-> NoUser, teamID |-> NoTeam, role |-> "unset"]

Outcome(status, forwarded, called, validated, ctx) ==
    [status |-> status, forwarded |-> forwarded, called |-> called,
     validated |-> validated, ctx |-> ctx]

\* variant: a token that is not an administrator's is answered like an invalid one
HandlerAdmin401(path, authz, now) ==
    IF \E i \in 1..Len(PublicPaths) : HasPrefix(path, PublicPaths[i])
    THEN Outcome(0, TRUE, FALSE, FALSE, NoCtx)
    ELSE IF authz = <<>>
    THEN Outcome(0, TRUE, FALSE, FALSE, NoCtx)
    ELSE LET parts == SplitN2(authz) IN
         IF Len(parts) # 2 \/ ~EqualFoldBearer(parts[1]) \/ parts[2] = <<>>
         THEN Outcome(401, FALSE, FALSE, FALSE, NoCtx)
         ELSE LET claims == validateToken(parts[2], now) IN
              IF ~claims.ok \/ (HasPrefix(path, AdminPrefix) /\ claims.Role # "admin")
              THEN Outcome(401, FALSE, TRUE, claims.ok, NoCtx)
              ELSE Outcome(0, TRUE, TRUE, TRUE,
                           [userID |-> claims.Subject, teamID |-> claims.TeamID,
                            role |-> claims.Role])

\* variant: a request without an Authorization header is answered 401
HandlerNoHeader401(path, authz, now) ==
    IF \E i \in 1..Len(PublicPaths) : HasPrefix(path, PublicPaths[i])
    THEN Outcome(0, TRUE, FALSE, FALSE, NoCtx)
    ELSE LET parts == SplitN2(authz) IN
         IF Len(parts) # 2 \/ ~EqualFoldBearer(parts[1]) \/ parts[2] = <<>>
         THEN Outcome(401, FALSE, FALSE, FALSE, NoCtx)
         ELSE LET claims == validateToken(parts[2], now) IN
              IF ~claims.ok
              THEN Outcome(401, FALSE, TRUE, FALSE, NoCtx)
              ELSE IF HasPrefix(path, AdminPrefix) /\ claims.Role # "admin"
              THEN Outcome(403, FALSE, TRUE, TRUE, NoCtx)
              ELSE Outcome(0, TRUE, TRUE, TRUE,
                           [userID |-> claims.Subject, teamID |-> claims.TeamID,
                            role |-> claims.Role])

\* variant: the allow-list is consulted after the Authorization header
HandlerPublicChecked(path, authz, now) ==
    LET public == \E i \in 1..Len(PublicPaths) : HasPrefix(path, PublicPaths[i]) IN
    IF authz = <<>>
    THEN Outcome(0, TRUE, FALSE, FALSE, NoCtx)
    ELSE LET parts == SplitN2(authz) IN
         IF Len(parts) # 2 \/ ~EqualFoldBearer(parts[1]) \/ parts[2] = <<>>
         THEN IF public THEN Outcome(0, TRUE, FALSE, FALSE, NoCtx)
              ELSE Outcome(401, FALSE, FALSE, FALSE, NoCtx)
         ELSE LET claims == validateToken(parts[2], now) IN
              IF ~claims.ok
              THEN IF public THEN Outcome(0, TRUE, TRUE, FALSE, NoCtx)
                   ELSE Outcome(401, FALSE, TRUE, FALSE, NoCtx)
              ELSE IF HasPrefix(path, AdminPrefix) /\ claims.Role # "admin"
              THEN Outcome(403, FALSE, TRUE, TRUE, NoCtx)
              ELSE Outcome(0, TRUE, TRUE, TRUE,
                           [userID |-> claims.Subject, teamID |-> claims.TeamID,
                            role |-> claims.Role])

\* AuthMiddleware.Handler (lines 50-93): the status the middleware writes (0 when
\* it writes none), whether next.ServeHTTP ran, whether validateToken was called
\* and accepted, and the values attached to the request context
Handler(path, authz, now) ==
    IF \E i \in 1..Len(PublicPaths) : HasPrefix(path, PublicPaths[i])
    THEN Outcome(0, TRUE, FALSE, FALSE, NoCtx)
    ELSE IF authz = <<>>
    THEN Outcome(0, TRUE, FALSE, FALSE, NoCtx)
    ELSE LET parts == SplitN2(authz) IN
         IF Len(parts) # 2 \/ ~EqualFoldBearer(parts[1]) \/ parts[2] = <<>>
         THEN Outcome(401, FALSE, FALSE, FALSE, NoCtx)
         ELSE LET claims == validateToken(parts[2], now) IN
              IF ~claims.ok
              THEN Outcome(401, FALSE, TRUE, FALSE, NoCtx)
              ELSE IF HasPrefix(path, AdminPrefix) /\ claims.Role # "admin"
              THEN Outcome(403, FALSE, TRUE, TRUE, NoCtx)
              ELSE Outcome(0, TRUE, TRUE, TRUE,
                           [userID |-> claims.Subject, teamID |-> claims.TeamID,
                            role |-> claims.Role])

GetUserID(ctx) == ctx.userID
GetTeamID(ctx) == ctx.teamID
GetRole(ctx) == IF ctx.role = "unset" THEN "user" ELSE ctx.role

\* runtime.WithMetadata of the gateway: the metadata of the downstream call; a
\* key with an empty value is a key that is not sent
NoMetadata == [xUserId |-> NoUser, xTeamId |-> NoTeam, xUserRole |-> "",
               authorization |-> <<>>, xRefreshToken |-> NoToken]

WithMetadata(ctx, authz, cookie) ==
    [xUserId |-> GetUserID(ctx), xTeamId |-> GetTeamID(ctx), xUserRole |-> GetRole(ctx),
     authorization |-> authz, xRefreshToken |-> cookie]

\* r.Header.Get("Authorization"): the first value of the header, the empty
\* string when the request has no such header
HeaderGet(hasAuthz, value) == IF hasAuthz THEN value ELSE <<>>

NoGw == [path |-> <<>>, hasAuthz |-> FALSE, authz |-> <<>>, cookie |-> NoToken, now |-> 0,
         out |-> Outcome(0, FALSE, FALSE, FALSE, NoCtx), md |-> NoMetadata]

\* requests the gateway receives
GwPaths == { <<"/v1", "/admin", "/", "labs">>, <<"/v1", "/admin", "/">>,
             <<"/v1", "/admin">>, <<"/v1", "/polygon">>,
             <<"/v1", "/auth", "/login">>, <<"/v1", "/auth", "/login", "x">>,
             <<"/v1", "/auth", "/register">>, <<"/v1", "/auth", "/refresh">>,
             <<"/v1", "/auth", "/validate">> }

GwTokens ==
    {[sub |-> s, team_id |-> tm, role |-> r, exp |-> e, alg |-> a, key |-> k] :
        s \in {NoUser, 1}, tm \in Teams \cup {NoTeam},
        r \in {"", "user", "admin", NonStringRole},
        e \in {NoExp, 1, MaxClock + 1}, a \in {"HS256", "none"},
        k \in {GatewaySecret, OtherSecret}}

\* tokens the gateway accepts until MaxClock: an administrator's and a user's
GoodTokens ==
    {[sub |-> 1, team_id |-> NoTeam, role |-> r, exp |-> MaxClock + 1,
      alg |-> "HS256", key |-> GatewaySecret] : r \in {"admin", "user"}}

GwHeaders ==
    {<<>>, <<Word("Bearer")>>, <<Word("Bearer"), Space>>}
      \cup {<<Word("Bearer"), Space, Jwt(t)>> : t \in GwTokens}
      \cup {<<Word(w), Space, Jwt(t)>> : w \in {"BEARER", "Basic"}, t \in GoodTokens}
      \cup {<<Word("Bearer"), Space, Space, Jwt(t)>> : t \in GoodTokens}
      \cup {<<Word("Bearer"), Space, Word("garbage")>>}

\* one request through the middleware and, when it is forwarded, the annotator
GatewayRequest(path, hasAuthz, value, cookie) ==
    /\ gw = NoGw
    /\ hasAuthz \/ value = <<>>
    /\ LET authz == HeaderGet(hasAuthz, value)
           out == Handler(path, authz, clock)
       IN  gw' = [path |-> path, hasAuthz |-> hasAuthz, authz |-> authz,
                  cookie |-> cookie, now |-> clock, out |-> out,
                  md |-> IF out.forwarded THEN WithMetadata(out.ctx, authz, cookie)
                         ELSE NoMetadata]
    /\ UNCHANGED <<users, creds, ledger, clock, proc, last, pwdRevoked, written>>

\* the response is written and the request is over
GatewayDone ==
    /\ gw # NoGw
    /\ gw' = NoGw
    /\ UNCHANGED <<users, creds, ledger, clock, proc, last, pwdRevoked, written>>

----------------------------------------------------------------------------
\* Initial state: empty tables, no request in flight

\* the state after CreateUser("alice", "pw1") and CreateUser("bob", "pw1")
Registered == {[id |-> 1, name |-> "alice"], [id |-> 2, name |-> "bob"]}

Init ==
    /\ users = Registered
    /\ creds = [u \in UserIds |-> GenerateFromPassword("pw1")]
    /\ ledger = <<>>
    /\ clock = 0
    /\ proc = [p \in Procs |-> Idle]
    /\ last = NoResp
    /\ pwdRevoked = {}
    /\ written = [u \in UserIds |-> "pw1"]
    /\ gw = NoGw

\* sequential executions: a handler starts only when no other is in flight;
\* handlers are interchangeable, a request takes the first idle one
CanStart(seq, p) ==
    /\ last = NoResp
    /\ proc[p].pc = "idle"
    /\ \A q \in Procs : q < p => proc[q].pc # "idle"
    /\ seq => \A q \in Procs : proc[q].pc = "idle"

Finish(p, resp) ==
    /\ proc' = [proc EXCEPT ![p] = Idle]
    /\ last' = resp

----------------------------------------------------------------------------
\* Server.CreateUser

\* strings.TrimSpace on the names the model sends
TrimSpace(name) == IF name = " " THEN "" ELSE name

NameInputs == Names \cup {"", " "}
PasswordInputs == Passwords \cup {""}

\* lines 46-52: validation, then UsersServer.CreateUser (duplicate check,
\* uuid.New, insert under the unique index on name)
CreateUserUpstream(seq, p, name, password, upstreamOK) ==
    /\ CanStart(seq, p)
    /\ UNCHANGED <<creds, ledger, clock, pwdRevoked, written, gw>>
    /\ IF name = "" \/ password = ""
       THEN /\ Finish(p, With(Err("CreateUser", "InvalidArgument", NoToken),
                              password, FALSE))
            /\ UNCHANGED users
       ELSE IF \/ ~upstreamOK
               \/ TrimSpace(name) = ""
               \/ \E u \in users : u.name = TrimSpace(name)
       THEN /\ Finish(p, With(Err("CreateUser", "Internal", NoToken),
                              password, ~upstreamOK))
            /\ UNCHANGED users
       ELSE LET id == Cardinality(users) + 1 IN      \* uuid.New: an id not in use
            /\ id \in UserIds
            /\ users' = users \cup {[id |-> id, name |-> TrimSpace(name)]}
            /\ proc' = [proc EXCEPT ![p] = [Idle EXCEPT !.pc = "create_upstream",
                                              !.userID = id, !.password = password]]
            /\ last' = NoResp

\* lines 53-63: hash, upsert of the credential row
CreateUserSave(p, fault) ==
    /\ last = NoResp
    /\ proc[p].pc = "create_upstream"
    /\ UNCHANGED <<users, ledger, clock, pwdRevoked, gw>>
    /\ LET id == proc[p].userID
           password == proc[p].password
       IN  IF fault # "none"
           THEN /\ Finish(p, With(Resp("CreateUser", "Internal", id, NoToken, NoToken,
                                       NoAccess, NoTeam), password, TRUE))
                /\ UNCHANGED <<creds, written>>
           ELSE /\ creds' = [u \in DOMAIN creds \cup {id} |->
                               IF u = id THEN GenerateFromPassword(password)
                               ELSE creds[u]]
                /\ written' = [u \in DOMAIN written \cup {id} |->
                                 IF u = id THEN password ELSE written[u]]
                /\ Finish(p, With(Resp("CreateUser", "OK", id, NoToken, NoToken,
                                       NoAccess, NoTeam), password, FALSE))

----------------------------------------------------------------------------
\* Server.SetPassword (lines 66-95): one step, nothing is read before the
\* transaction

\* what the caller of SetPassword sees, with the request it answers
SetPasswordResp(code, userID, password, fault) ==
    With(Resp("SetPassword", code, userID, NoToken, NoToken, NoAccess, NoTeam),
         password, fault # "none")

SetPassword(seq, p, userID, password, fault) ==
    /\ CanStart(seq, p)
    /\ UNCHANGED <<users, clock, gw>>
    /\ IF userID = NoUser \/ password = ""
       THEN /\ Finish(p, SetPasswordResp("InvalidArgument", userID, password, "none"))
            /\ UNCHANGED <<creds, ledger, pwdRevoked, written>>
       ELSE IF fault = "hash"
       THEN /\ Finish(p, SetPasswordResp("Internal", userID, password, fault))
            /\ UNCHANGED <<creds, ledger, pwdRevoked, written>>
       ELSE LET tx == SetPasswordTx(creds, ledger, userID,
                                    GenerateFromPassword(password), fault) IN
            /\ creds' = tx.creds
            /\ ledger' = tx.ledger
            /\ IF tx.ok
               THEN /\ pwdRevoked' = pwdRevoked \cup
                                       {t \in Tokens : ledger[t].user_id = userID}
                    /\ written' = [u \in DOMAIN written \cup {userID} |->
                                     IF u = userID THEN password ELSE written[u]]
                    /\ Finish(p, SetPasswordResp("OK", userID, password, fault))
               ELSE /\ UNCHANGED <<pwdRevoked, written>>
                    /\ Finish(p, SetPasswordResp("Internal", userID, password, fault))

----------------------------------------------------------------------------
\* Server.Login

\* variant: the query has no condition on the name
CredentialForAnyName(name) == DOMAIN creds

\* the query of line 109: credentials joined with users on the name
CredentialFor(name) ==
    {u.id : u \in {x \in users : x.name = name /\ x.id \in DOMAIN creds}}

\* lines 103-115: validation, lookup of the credential, password comparison
LoginVerify(seq, p, name, password) ==
    /\ CanStart(seq, p)
    /\ UNCHANGED <<users, creds, ledger, clock, pwdRevoked, written, gw>>
    /\ IF name = "" \/ password = ""
       THEN Finish(p, For(With(Err("Login", "InvalidArgument", NoToken), password, FALSE),
                          name, NoToken, NoToken, NoLookup))
       ELSE IF CredentialFor(name) = {}
       THEN Finish(p, For(With(Err("Login", "NotFound", NoToken), password, FALSE),
                          name, NoToken, NoToken, NoLookup))
       ELSE LET userID == CHOOSE u \in CredentialFor(name) : TRUE IN
            IF ~CompareHashAndPassword(creds[userID], password)
            THEN Finish(p, For(With(Resp("Login", "Unauthenticated", userID, NoToken,
                                         NoToken, NoAccess, NoTeam), password, FALSE),
                               name, NoToken, NoToken, NoLookup))
            ELSE /\ proc' = [proc EXCEPT ![p] = [Idle EXCEPT !.pc = "login_verified",
                                                   !.userID = userID,
                                                   !.password = password,
                                                   !.name = name]]
                 /\ last' = NoResp

\* variant: an error of the team lookup fails the Login
LoginIssueTeamRequired(p, lookup, randOK, fault) ==
    /\ last = NoResp
    /\ proc[p].pc = "login_verified"
    /\ UNCHANGED <<users, creds, clock, pwdRevoked, written, gw>>
    /\ LET userID == proc[p].userID
           teamID == ResolveTeam(lookup)
           signed == SignAccessToken(userID, teamID, clock, JwtSecret)
           refreshToken == generateOpaqueToken(randOK, clock, ledger)
           refreshExp == clock + RefreshTTL
       IN  IF lookup.err \/ fault # "none" \/ refreshToken \in Tokens
           THEN /\ Finish(p, For(With(Resp("Login", "Internal", userID, NoToken, NoToken,
                                           NoAccess, NoTeam),
                                      proc[p].password, fault # "none" \/ ~randOK),
                                 proc[p].name, NoToken, NoToken, lookup))
                /\ UNCHANGED ledger
           ELSE /\ Cardinality(Tokens) < MaxTokens
                /\ ledger' = ledger @@ (refreshToken :> Row(userID, refreshExp, NoToken))
                /\ Finish(p, SetHeader(
                                 For(With(Resp("Login", "OK", userID, NoToken, refreshToken,
                                               signed, teamID),
                                          proc[p].password, ~randOK),
                                     proc[p].name, NoToken, NoToken, lookup),
                                 buildRefreshCookie(refreshToken, refreshExp)))

\* variant: a Login ends the user's other sessions
LoginIssueSingleSession(p, lookup, randOK, fault) ==
    /\ last = NoResp
    /\ proc[p].pc = "login_verified"
    /\ UNCHANGED <<users, creds, clock, pwdRevoked, written, gw>>
    /\ LET userID == proc[p].userID
           teamID == ResolveTeam(lookup)
           signed == SignAccessToken(userID, teamID, clock, JwtSecret)
           refreshToken == generateOpaqueToken(randOK, clock, ledger)
           refreshExp == clock + RefreshTTL
           others == [t \in Tokens |->
                        IF ledger[t].user_id = userID
                        THEN [ledger[t] EXCEPT !.revoked = TRUE] ELSE ledger[t]]
       IN  IF fault # "none" \/ refreshToken \in Tokens
           THEN /\ Finish(p, For(With(Resp("Login", "Internal", userID, NoToken, NoToken,
                                           NoAccess, NoTeam),
                                      proc[p].password, fault # "none" \/ ~randOK),
                                 proc[p].name, NoToken, NoToken, lookup))
                /\ UNCHANGED ledger
           ELSE /\ Cardinality(Tokens) < MaxTokens
                /\ ledger' = others @@ (refreshToken :> Row(userID, refreshExp, NoToken))
                /\ Finish(p, SetHeader(
                                 For(With(Resp("Login", "OK", userID, NoToken, refreshToken,
                                               signed, teamID),
                                          proc[p].password, ~randOK),
                                     proc[p].name, NoToken, NoToken, lookup),
                                 buildRefreshCookie(refreshToken, refreshExp)))

\* lines 117-146: team lookup, access token, refresh token and its insert
LoginIssue(p, lookup, randOK, fault) ==
    /\ last = NoResp
    /\ proc[p].pc = "login_verified"
    /\ UNCHANGED <<users, creds, clock, pwdRevoked, written, gw>>
    /\ LET userID == proc[p].userID
           teamID == ResolveTeam(lookup)
           signed == SignAccessToken(userID, teamID, clock, JwtSecret)
           refreshToken == generateOpaqueToken(randOK, clock, ledger)
           refreshExp == clock + RefreshTTL
       IN  IF fault # "none" \/ refreshToken \in Tokens
           THEN /\ Finish(p, For(With(Resp("Login", "Internal", userID, NoToken, NoToken,
                                           NoAccess, NoTeam),
                                      proc[p].password, fault # "none" \/ ~randOK),
                                 proc[p].name, NoToken, NoToken, lookup))
                /\ UNCHANGED ledger
           ELSE /\ Cardinality(Tokens) < MaxTokens
                /\ ledger' = ledger @@ (refreshToken :> Row(userID, refreshExp, NoToken))
                /\ Finish(p, SetHeader(
                                 For(With(Resp("Login", "OK", userID, NoToken, refreshToken,
                                               signed, teamID),
                                          proc[p].password, ~randOK),
                                     proc[p].name, NoToken, NoToken, lookup),
                                 buildRefreshCookie(refreshToken, refreshExp)))

----------------------------------------------------------------------------
\* Server.Refresh

RefreshInputs == Tokens \cup {NoToken, UnknownToken}

\* requests: the token in the field, in the cookie the gateway propagates as
\* x-refresh-token, in neither, or in the field with another value in the cookie
RefreshRequests ==
    {<<f, NoToken>> : f \in RefreshInputs}
      \cup {<<NoToken, c>> : c \in RefreshInputs}
      \cup {<<f, UnknownToken>> : f \in Tokens}
      \cup {<<UnknownToken, c>> : c \in Tokens}

\* requests of clients that send the token in the field
FieldRequests == {<<f, NoToken>> : f \in RefreshInputs}

\* variant: the user is read from a row the query does not restrict to the token
RefreshLookupAnyRow(seq, p, field, cookie) ==
    /\ CanStart(seq, p)
    /\ UNCHANGED <<users, creds, ledger, clock, pwdRevoked, written, gw>>
    /\ LET tokenValue == IF field # NoToken THEN field ELSE cookie IN
       IF tokenValue = NoToken
       THEN Finish(p, For(Err("Refresh", "InvalidArgument", NoToken),
                          "", field, cookie, NoLookup))
       ELSE IF tokenValue \notin Tokens
       THEN Finish(p, For(Err("Refresh", "Unauthenticated", tokenValue),
                          "", field, cookie, NoLookup))
       ELSE IF RefreshRejected(ledger[tokenValue], clock)
       THEN Finish(p, For(Resp("Refresh", "Unauthenticated", ledger[tokenValue].user_id,
                               tokenValue, NoToken, NoAccess, NoTeam),
                          "", field, cookie, NoLookup))
       ELSE /\ proc' = [proc EXCEPT ![p] = [Idle EXCEPT !.pc = "refresh_checked",
                                              !.userID = ledger[CHOOSE t \in Tokens : TRUE].user_id,
                                              !.tokenValue = tokenValue,
                                              !.field = field, !.cookie = cookie]]
            /\ last' = NoResp

\* variant: the propagated cookie is preferred to the request field
RefreshLookupCookieFirst(seq, p, field, cookie) ==
    /\ CanStart(seq, p)
    /\ UNCHANGED <<users, creds, ledger, clock, pwdRevoked, written, gw>>
    /\ LET tokenValue == IF cookie # NoToken THEN cookie ELSE field IN
       IF tokenValue = NoToken
       THEN Finish(p, For(Err("Refresh", "InvalidArgument", NoToken),
                          "", field, cookie, NoLookup))
       ELSE IF tokenValue \notin Tokens
       THEN Finish(p, For(Err("Refresh", "Unauthenticated", tokenValue),
                          "", field, cookie, NoLookup))
       ELSE IF RefreshRejected(ledger[tokenValue], clock)
       THEN Finish(p, For(Resp("Refresh", "Unauthenticated", ledger[tokenValue].user_id,
                               tokenValue, NoToken, NoAccess, NoTeam),
                          "", field, cookie, NoLookup))
       ELSE /\ proc' = [proc EXCEPT ![p] = [Idle EXCEPT !.pc = "refresh_checked",
                                              !.userID = ledger[tokenValue].user_id,
                                              !.tokenValue = tokenValue,
                                              !.field = field, !.cookie = cookie]]
            /\ last' = NoResp

\* lines 171-193: the token from the field or the propagated cookie, the
\* lookup of its row, the usability check
RefreshLookup(seq, p, field, cookie) ==
    /\ CanStart(seq, p)
    /\ UNCHANGED <<users, creds, ledger, clock, pwdRevoked, written, gw>>
    /\ LET tokenValue == IF field # NoToken THEN field ELSE cookie IN
       IF tokenValue = NoToken
       THEN Finish(p, For(Err("Refresh", "InvalidArgument", NoToken),
                          "", field, cookie, NoLookup))
       ELSE IF tokenValue \notin Tokens
       THEN Finish(p, For(Err("Refresh", "Unauthenticated", tokenValue),
                          "", field, cookie, NoLookup))
       ELSE IF RefreshRejected(ledger[tokenValue], clock)
       THEN Finish(p, For(Resp("Refresh", "Unauthenticated", ledger[tokenValue].user_id,
                               tokenValue, NoToken, NoAccess, NoTeam),
                          "", field, cookie, NoLookup))
       ELSE /\ proc' = [proc EXCEPT ![p] = [Idle EXCEPT !.pc = "refresh_checked",
                                              !.userID = ledger[tokenValue].user_id,
                                              !.tokenValue = tokenValue,
                                              !.field = field, !.cookie = cookie]]
            /\ last' = NoResp

\* lines 195-239: team lookup, access token, rotation transaction
RefreshRotate(p, lookup, randOK, fault) ==
    /\ last = NoResp
    /\ proc[p].pc = "refresh_checked"
    /\ UNCHANGED <<users, creds, clock, pwdRevoked, written, gw>>
    /\ LET userID == proc[p].userID
           tokenValue == proc[p].tokenValue
           teamID == ResolveTeam(lookup)
           signed == SignAccessToken(userID, teamID, clock, JwtSecret)
           newRefresh == generateOpaqueToken(randOK, clock, ledger)
           newRefreshExp == clock + RefreshTTL
           newRow == Row(userID, newRefreshExp, tokenValue)
           tx == RotateTx(ledger, tokenValue, newRefresh, newRow, fault)
       IN  /\ tx.ok => Cardinality(Tokens) < MaxTokens
           /\ ledger' = tx.ledger
           /\ IF tx.ok
              THEN Finish(p, SetHeader(
                              For(With(Resp("Refresh", "OK", userID, tokenValue, newRefresh,
                                            signed, teamID), "", ~randOK),
                                  "", proc[p].field, proc[p].cookie, lookup),
                              buildRefreshCookie(newRefresh, newRefreshExp)))
              ELSE Finish(p, For(With(Resp("Refresh", "Internal", userID, tokenValue,
                                           NoToken, NoAccess, NoTeam),
                                      "", fault # "none" \/ ~randOK),
                                 "", proc[p].field, proc[p].cookie, lookup))

----------------------------------------------------------------------------
\* Server.ValidateToken as a request (lines 149-167)

\* the access tokens Login and Refresh returned with the rows of the ledger,
\* for each team the lookup may have resolved
IssuedAccess ==
    {SignAccessToken(ledger[t].user_id, tm, ledger[t].expires_at - RefreshTTL, JwtSecret) :
        t \in Tokens, tm \in Teams \cup {NoTeam}}

ForgedTokens ==
    {[sub |-> 1, team_id |-> NoTeam, role |-> "", exp |-> MaxClock + 1,
      alg |-> "HS256", key |-> OtherSecret],
     [sub |-> NoUser, team_id |-> NoTeam, role |-> "", exp |-> NoExp,
      alg |-> "HS256", key |-> JwtSecret],
     [sub |-> 1, team_id |-> NoTeam, role |-> "", exp |-> MaxClock + 1,
      alg |-> "HS384", key |-> JwtSecret],
     [sub |-> 1, team_id |-> NoTeam, role |-> "", exp |-> 1,
      alg |-> "HS256", key |-> JwtSecret]}

AccessInputs == IssuedAccess \cup ForgedTokens \cup {NoAccess}

ValidateTokenReq(seq, p, tok) ==
    /\ CanStart(seq, p)
    /\ UNCHANGED <<users, creds, ledger, clock, pwdRevoked, written, gw>>
    /\ LET r == ValidateToken(tok, clock) IN
       Finish(p, Resp("ValidateToken", r.code, r.user_id, NoToken, NoToken, tok,
                      r.team_id))

----------------------------------------------------------------------------
\* The clock

Tick ==
    /\ last = NoResp
    /\ gw = NoGw
    /\ clock < MaxClock
    /\ clock' = clock + 1
    /\ last' = NoResp
    /\ UNCHANGED <<users, creds, ledger, proc, pwdRevoked, written, gw>>

----------------------------------------------------------------------------
\* The session service under concurrent handlers, and under sequential calls

\* the response of a handler is delivered before the next step is taken
Deliver ==
    /\ last # NoResp
    /\ last' = NoResp
    /\ UNCHANGED <<users, creds, ledger, clock, proc, pwdRevoked, written, gw>>

Step(seq, names, ids, rands, refreshes) ==
    \/ \E p \in Procs, userID \in ids \cup {NoUser}, password \in PasswordInputs,
          fault \in Faults : SetPassword(seq, p, userID, password, fault)
    \/ \E p \in Procs, name \in names \cup {""}, password \in PasswordInputs :
          LoginVerify(seq, p, name, password)
    \/ \E p \in Procs, lookup \in TeamLookups, randOK \in rands,
          fault \in {"none", "exec1"} : LoginIssue(p, lookup, randOK, fault)
    \/ \E p \in Procs, r \in refreshes : RefreshLookup(seq, p, r[1], r[2])
    \/ \E p \in Procs, lookup \in TeamLookups, randOK \in rands,
          fault \in Faults \ {"hash"} : RefreshRotate(p, lookup, randOK, fault)
    \/ \E p \in Procs, tok \in AccessInputs : ValidateTokenReq(seq, p, tok)
    \/ Tick
    \/ Deliver

\* concurrent handlers; one user's sessions, secure random generation works,
\* the refresh token comes in the request field
Next == Step(FALSE, {"alice"}, {1}, {TRUE}, FieldRequests)

Spec == Init /\ [][Next]_vars

\* one call at a time; secure random generation may fail, the refresh token
\* comes in the field or in the cookie
NextSeq == Step(TRUE, {"alice"}, {1}, BOOLEAN, RefreshRequests)

SeqSpec == Init /\ [][NextSeq]_vars

\* The session service from empty tables, with registration: concurrent
\* handlers, passwords are set for the first user registered, alice logs in,
\* the team lookup finds no team, secure random generation works
InitFresh ==
    /\ users = {}
    /\ creds = <<>>
    /\ ledger = <<>>
    /\ clock = 0
    /\ proc = [p \in Procs |-> Idle]
    /\ last = NoResp
    /\ pwdRevoked = {}
    /\ written = <<>>
    /\ gw = NoGw

NextUsers ==
    \/ \E p \in Procs, name \in NameInputs, password \in PasswordInputs,
          upstreamOK \in BOOLEAN : CreateUserUpstream(FALSE, p, name, password, upstreamOK)
    \/ \E p \in Procs, fault \in {"none", "hash", "exec1"} : CreateUserSave(p, fault)
    \/ \E p \in Procs, userID \in {1, NoUser}, password \in PasswordInputs,
          fault \in Faults : SetPassword(FALSE, p, userID, password, fault)
    \/ \E p \in Procs, name \in {"alice", ""}, password \in PasswordInputs :
          LoginVerify(FALSE, p, name, password)
    \/ \E p \in Procs : LoginIssue(p, [err |-> FALSE, team |-> NoTeam], TRUE, "none")
    \/ \E p \in Procs, field \in RefreshInputs : RefreshLookup(FALSE, p, field, NoToken)
    \/ \E p \in Procs, fault \in {"none", "commit"} :
          RefreshRotate(p, [err |-> FALSE, team |-> NoTeam], TRUE, fault)
    \/ Tick
    \/ Deliver

UserSpec == InitFresh /\ [][NextUsers]_vars

\* one call at a time, the sessions of two users
NextPair == Step(TRUE, Names, UserIds, {TRUE}, FieldRequests)

PairSpec == Init /\ [][NextPair]_vars

\* concurrent handlers and the sessions of two users: both log in with their
\* first password, the first user's password is changed, rotations fail at the
\* insert or at the commit
NextRace ==
    \/ \E p \in Procs : SetPassword(FALSE, p, 1, "pw2", "none")
    \/ \E p \in Procs, name \in Names : LoginVerify(FALSE, p, name, "pw1")
    \/ \E p \in Procs : LoginIssue(p, NoLookup, TRUE, "none")
    \/ \E p \in Procs, field \in RefreshInputs : RefreshLookup(FALSE, p, field, NoToken)
    \/ \E p \in Procs, fault \in {"none", "exec2", "commit"} :
          RefreshRotate(p, NoLookup, TRUE, fault)
    \/ Tick
    \/ Deliver

RaceSpec == Init /\ [][NextRace]_vars

\* the session service behind the gateway: one call at a time, and between
\* calls a request to the gateway with an access token the service issued,
\* presented as Authorization: Bearer <token>
BearerHeader(tok) == <<Word("Bearer"), Space, Jwt(tok)>>

NextEdge ==
    \/ gw = NoGw /\ Step(TRUE, {"alice"}, {1}, {TRUE}, FieldRequests)
    \/ \E path \in GwPaths, tok \in IssuedAccess :
          /\ last = NoResp
          /\ \A p \in Procs : proc[p].pc = "idle"
          /\ GatewayRequest(path, TRUE, BearerHeader(tok), NoToken)
    \/ GatewayDone

EdgeSpec == Init /\ [][NextEdge]_vars

\* the gateway alone
NextGw ==
    \/ \E path \in GwPaths, hasAuthz \in BOOLEAN, value \in GwHeaders,
          cookie \in {NoToken, UnknownToken} :
          GatewayRequest(path, hasAuthz, value, cookie)
    \/ GatewayDone
    \/ Tick

GwSpec == Init /\ [][NextGw]_vars

----------------------------------------------------------------------------
\* Properties of refresh-token rotation

\* rows inserted by a successful Refresh of t
Replacements(t) == {n \in Tokens : ledger[n].parent = t}

\* the Login row a row descends from
RECURSIVE Root(_)
Root(t) == IF ledger[t].parent = NoToken THEN t ELSE Root(ledger[t].parent)

\* C1: two concurrent Refresh calls of one usable token: exactly one succeeds
\* and only one replacement row is inserted.  Each successful Refresh of t
\* inserts one row, so a token rotated by two calls has two replacements.
C1_OneWinner ==
    \A t \in Tokens : Cardinality(Replacements(t)) <= 1

\* C2: under sequential calls Refresh(t) succeeds at most once, and every
\* Refresh(t) answered after a successful Refresh(t) is Unauthenticated.
C2_SingleUse ==
    /\ [](\A t \in Tokens : Cardinality(Replacements(t)) <= 1)
    /\ [][\A t \in Tokens :
            (Replacements(t) # {} /\ last'.op = "Refresh" /\ last'.presented = t)
                => last'.code = "Unauthenticated"]_vars

C2_Witness ==
    /\ last.op = "Refresh" /\ last.code = "Unauthenticated"
    /\ last.presented \in Tokens
    /\ Replacements(last.presented) # {}
    /\ ledger[last.presented].expires_at >= clock

\* C3: a Refresh whose rotation transaction fails returns an error and leaves
\* the ledger as it was: the presented row still not revoked and not replaced,
\* no replacement row.
C3_RotationAtomic ==
    [][(last'.op = "Refresh" /\ last'.code = "Internal")
         => /\ ledger' = ledger
            /\ ~ledger'[last'.presented].revoked
            /\ ledger'[last'.presented].replaced_by_token = NoToken
            /\ Replacements(last'.presented) = {}]_vars

C3_Witness ==
    /\ last.op = "Refresh" /\ last.code = "Internal"
    /\ Usable(ledger[last.presented], clock)
    /\ TimeToken(clock) \in Tokens

\* C4: once SetPassword(u) has succeeded, every row that existed for u is
\* rejected by the usability check of Refresh, now and at every later time.
C4_PasswordRevokes ==
    \A t \in pwdRevoked : \A now \in clock..MaxClock : RefreshRejected(ledger[t], now)

C4_Witness ==
    /\ last.op = "Refresh" /\ last.code = "Unauthenticated"
    /\ last.presented \in pwdRevoked
    /\ ledger[last.presented].expires_at >= clock
    /\ ledger[last.presented].replaced_by_token = NoToken

\* C5: every session (the rows that descend from one Login) holds at most one
\* usable refresh token.
C5_OneUsablePerChain ==
    \A r \in Tokens :
        Cardinality({t \in Tokens : Root(t) = r /\ Usable(ledger[t], clock)}) <= 1

\* C6: SetPassword is all-or-nothing: an error changes neither a hash nor a
\* row; a success replaces the user's hash and leaves none of the user's rows
\* unrevoked, in the same step.
C6_SetPasswordAtomic ==
    [][last'.op = "SetPassword"
         => IF last'.code = "OK"
            THEN /\ creds'[last'.user] = GenerateFromPassword(last'.password)
                 /\ \A t \in DOMAIN ledger' :
                       ledger'[t].user_id = last'.user => ledger'[t].revoked
            ELSE creds' = creds /\ ledger' = ledger]_vars

C6_WitnessOK ==
    /\ last.op = "SetPassword" /\ last.code = "OK"
    /\ \E t \in Tokens : ledger[t].user_id = last.user /\ ledger[t].revoked
                          /\ ledger[t].replaced_by_token = NoToken
    /\ creds[last.user] # GenerateFromPassword("pw1")

\* C7: an access token issued with a row of the ledger is accepted by
\* ValidateToken at every time before its exp, whatever became of the row.
C7_AccessIndependent ==
    /\ \A tok \in IssuedAccess : \A now \in Times :
          now < tok.exp => ValidateToken(tok, now).code = "OK"
    /\ (last.op = "ValidateToken" /\ last.access \in IssuedAccess
          /\ clock < last.access.exp) => last.code = "OK"

C7_Witness ==
    /\ last.op = "ValidateToken" /\ last.code = "OK"
    /\ \A t \in Tokens : ledger[t].revoked
    /\ last.access \in IssuedAccess

\* C15: the access token a successful Login or Refresh returns for user u and
\* team t is accepted by ValidateToken at every time before its exp, and
\* ValidateToken returns user_id = u and team_id = t; a ValidateToken call on
\* an issued token before its exp answers with the token's subject and team.
C15_RoundTrip ==
    /\ (last.op \in {"Login", "Refresh"} /\ last.code = "OK")
          => \A now \in Times :
                now < last.access.exp
                  => ValidateToken(last.access, now) =
                        [code |-> "OK", user_id |-> last.user, team_id |-> last.team]
    /\ (last.op = "ValidateToken" /\ last.access \in IssuedAccess
          /\ clock < last.access.exp)
          => /\ last.code = "OK"
             /\ last.user = last.access.sub /\ last.user \in UserIds
             /\ last.team = last.access.team_id

C15_Witness ==
    /\ last.op = "ValidateToken" /\ last.code = "OK"
    /\ last.access \in IssuedAccess
    /\ last.team \in Teams /\ last.user \in UserIds
    /\ clock > 0
    /\ \E t \in Tokens : ledger[t].parent # NoToken

\* what C16 says of a token at a time
C16_Expected(tok, now) ==
    IF tok = NoAccess THEN "InvalidArgument"
    ELSE IF \/ tok.key # JwtSecret
            \/ tok.alg # "HS256"
            \/ (tok.exp # NoExp /\ tok.exp <= now)
            \/ tok.sub = NoUser
    THEN "Unauthenticated"
    ELSE "OK"

\* C16: ValidateToken answers Unauthenticated for a token signed with another
\* secret, of another algorithm than HS256, whose exp has passed or whose
\* subject is empty, InvalidArgument for the empty token, and OK for no other
\* token that fails one of these tests.
C16_Rejections ==
    /\ \A tok \in AccessInputs : \A now \in Times :
          ValidateToken(tok, now).code = C16_Expected(tok, now)
    /\ last.op = "ValidateToken" => last.code = C16_Expected(last.access, clock)

C16_Witness ==
    /\ last.op = "ValidateToken" /\ last.code = "Unauthenticated"
    /\ last.access \in IssuedAccess
    /\ last.access.exp <= clock

----------------------------------------------------------------------------
\* Properties of the ledger and the credential store under registration

\* C17: a row that is revoked stays in the ledger and stays revoked, whatever
\* step of Login, Refresh, SetPassword or CreateUser is taken next.
C17_RevokedForever ==
    [][\A t \in Tokens :
          ledger[t].revoked => (t \in DOMAIN ledger' /\ ledger'[t].revoked)]_vars

C17_Witness ==
    /\ last.op = "CreateUser" /\ last.code = "OK"
    /\ \E t \in Tokens : ledger[t].revoked /\ ledger[t].replaced_by_token = NoToken
    /\ \E t \in Tokens : ledger[t].revoked /\ ledger[t].replaced_by_token # NoToken

\* C18: every user_id with a credential has one hash, the hash of the password
\* of the last CreateUser or SetPassword that succeeded for it, and a write
\* that no storage or hashing failure strikes succeeds, also when the user_id
\* has a credential already.
C18_Upsert ==
    /\ [](/\ DOMAIN creds = DOMAIN written
          /\ \A u \in DOMAIN creds : creds[u] = GenerateFromPassword(written[u]))
    /\ [][(/\ last'.op \in {"SetPassword", "CreateUser"}
           /\ last'.user # NoUser /\ last'.password # ""
           /\ ~last'.faulted)
            => /\ last'.code = "OK"
               /\ creds'[last'.user] = GenerateFromPassword(last'.password)]_vars

C18_Witness ==
    /\ last.op = "SetPassword" /\ last.code = "OK" /\ last.password = "pw2"
    /\ \E u \in users : u.id = last.user
    /\ \E t \in Tokens : ledger[t].user_id = last.user
    /\ creds[last.user] = GenerateFromPassword("pw2")
    /\ Cardinality(DOMAIN creds) = 2

\* C19: once a credential write has replaced a user's password, a Login with
\* the user's name and the new password is not refused and succeeds when no
\* failure strikes it, and a Login with any other password, the replaced one
\* included, answers Unauthenticated.
C19_LoginAfterSetPassword ==
    [][(last'.op = "Login" /\ last'.user \in DOMAIN written /\ last'.password # "")
         => IF last'.password = written[last'.user]
            THEN /\ last'.code \in {"OK", "Internal"}
                 /\ ~last'.faulted => last'.code = "OK"
            ELSE last'.code = "Unauthenticated"]_vars

C19_Witness ==
    /\ last.op = "Login" /\ last.code = "Unauthenticated"
    /\ last.password = "pw1"
    /\ written[last.user] = "pw2"
    /\ \E t \in Tokens : ledger[t].user_id = last.user /\ ledger[t].revoked
                          /\ ledger[t].replaced_by_token = NoToken

\* C20: a Refresh presented with a token that is usable (not revoked, not
\* replaced, before its expiry) succeeds when no failure strikes it and returns
\* a new pair; the refresh token a successful Login or Refresh returns is a
\* usable row of the ledger, so the chain goes on.
C20_ChainContinues ==
    /\ [][(/\ last'.op = "Refresh" /\ last'.presented \in Tokens
           /\ Usable(ledger[last'.presented], clock)
           /\ ~last'.faulted)
            => /\ last'.code = "OK"
               /\ last'.refresh \in DOMAIN ledger' \ Tokens
               /\ last'.access # NoAccess]_vars
    /\ [][(last'.op \in {"Login", "Refresh"} /\ last'.code = "OK")
            => /\ last'.refresh \in DOMAIN ledger'
               /\ Usable(ledger'[last'.refresh], clock')]_vars

C20_Witness ==
    /\ last.op = "Refresh" /\ last.code = "OK" /\ ~last.faulted
    /\ ledger[last.presented].parent # NoToken
    /\ ledger[ledger[last.presented].parent].parent = NoToken
    /\ Usable(ledger[last.refresh], clock)

\* C28: no step deletes a row of the ledger or changes the user_id or the
\* expires_at of a row (the token is the key of the row), and a step of the
\* clock writes nothing.
C28_LedgerOnlyGrows ==
    [][/\ DOMAIN ledger \subseteq DOMAIN ledger'
       /\ \A t \in Tokens :
             /\ ledger'[t].user_id = ledger[t].user_id
             /\ ledger'[t].expires_at = ledger[t].expires_at
       /\ clock' # clock => ledger' = ledger]_vars

C28_Witness ==
    /\ last.op = "Refresh" /\ last.code = "Unauthenticated"
    /\ last.presented \in Tokens
    /\ clock > ledger[last.presented].expires_at
    /\ ~ledger[last.presented].revoked
    /\ \E t \in Tokens : ledger[t].revoked /\ ledger[t].replaced_by_token = NoToken

----------------------------------------------------------------------------
\* Properties of Login and Refresh as single calls

\* the step answers a Login or a Refresh that had passed its checks
IssueStep(op) ==
    /\ last'.op = op
    /\ \E p \in Procs : proc[p].pc \in {"login_verified", "refresh_checked"}
                          /\ proc'[p].pc = "idle"

\* C21: what the team lookup answers changes neither whether a Login or a
\* Refresh that passed its checks succeeds nor what it writes to the ledger;
\* on an error or without a team the team_id of the access token and of the
\* response is empty, otherwise it is the team found.
C21_TeamLookupSwallowed ==
    [][(IssueStep("Login") \/ IssueStep("Refresh"))
        => LET found == IF last'.req.lookup.err THEN NoTeam ELSE last'.req.lookup.team
               row == Row(last'.user, clock + RefreshTTL, last'.presented)
           IN  /\ last'.code = IF last'.faulted THEN "Internal" ELSE "OK"
               /\ last'.code = "Internal" => ledger' = ledger
               /\ last'.code = "OK"
                     => /\ last'.team = found
                        /\ last'.access.team_id = found
                        /\ ledger' = IF last'.op = "Login"
                                     THEN ledger @@ (last'.refresh :> row)
                                     ELSE RotateTx(ledger, last'.presented, last'.refresh,
                                                   row, "none").ledger]_vars

C21_Witness ==
    /\ last.op = "Refresh" /\ last.code = "OK"
    /\ last.req.lookup.err
    /\ last.access.team_id = NoTeam
    /\ ledger[last.presented].replaced_by_token = last.refresh

\* C23: a Login with an empty name or password answers InvalidArgument, one
\* whose name matches no credential NotFound, one whose password does not
\* match the stored hash Unauthenticated; a Login that answers one of the
\* three inserts no row and changes none.
C23_LoginErrors ==
    [][last'.op = "Login"
        => LET name == last'.req.name
               password == last'.password
               matching == {u \in users : u.name = name /\ u.id \in DOMAIN creds}
           IN  /\ (name = "" \/ password = "") => last'.code = "InvalidArgument"
               /\ (name # "" /\ password # "" /\ matching = {})
                     => last'.code = "NotFound"
               /\ (name # "" /\ password # "" /\ proc' = proc
                     /\ \E u \in matching :
                           creds[u.id] # GenerateFromPassword(password))
                     => last'.code = "Unauthenticated"
               /\ last'.code \in {"InvalidArgument", "NotFound", "Unauthenticated"}
                     => /\ ledger' = ledger
                        /\ last'.refresh = NoToken /\ last'.access = NoAccess]_vars

C23_Witness ==
    /\ last.op = "Login" /\ last.code = "NotFound"
    /\ last.req.name = "alice"
    /\ \E u \in users : u.name = "alice"
    /\ creds # <<>>

\* the token Refresh works with, as C24 states it
C24_Taken(req) == IF req.field # NoToken THEN req.field ELSE req.cookie

\* C24: Refresh works with the token of the request field when that is not
\* empty and with the propagated cookie value otherwise; it answers
\* InvalidArgument exactly when both are empty, and then writes nothing.
C24_FieldThenCookie ==
    /\ [](\A p \in Procs :
            proc[p].pc = "refresh_checked"
              => /\ proc[p].tokenValue = C24_Taken(proc[p])
                 /\ proc[p].tokenValue # NoToken)
    /\ [][last'.op = "Refresh"
            => /\ last'.code = "InvalidArgument"
                     <=> (last'.req.field = NoToken /\ last'.req.cookie = NoToken)
               /\ last'.code # "InvalidArgument"
                     => last'.presented = C24_Taken(last'.req)
               /\ last'.code = "InvalidArgument"
                     => ledger' = ledger /\ proc' = proc]_vars

C24_Witness ==
    /\ last.op = "Refresh" /\ last.code = "OK"
    /\ last.req.field = NoToken
    /\ last.req.cookie = last.presented
    /\ ledger[last.presented].replaced_by_token = last.refresh

\* the step in which the Refresh of handler p passes the check of its token
PassesCheck(p) == proc[p].pc = "idle" /\ proc'[p].pc = "refresh_checked"

\* C25: a Refresh presented with a token that has no row, or whose row is
\* revoked, expired (the clock has reached expires_at) or replaced, does not
\* pass; a Refresh answered Unauthenticated returns no token and leaves the
\* ledger as it was.
C25_RejectedRefresh ==
    [][/\ \A p \in Procs :
            PassesCheck(p)
              => LET t == proc'[p].tokenValue IN
                 /\ t \in Tokens
                 /\ ~ledger[t].revoked
                 /\ ~(clock >= ledger[t].expires_at)
                 /\ ledger[t].replaced_by_token = NoToken
       /\ (last'.op = "Refresh" /\ last'.code = "Unauthenticated")
            => /\ ledger' = ledger
               /\ last'.access = NoAccess /\ last'.refresh = NoToken]_vars

\* C27: Refresh accepts a presented token only if it is usable when the check
\* is evaluated: not revoked, not replaced, the clock strictly before
\* expires_at.
C27_StrictExpiry ==
    [][\A p \in Procs :
          PassesCheck(p) => Usable(ledger[proc'[p].tokenValue], clock)]_vars

\* C26: a row is changed at most once, Active -> RotatedOut or Active ->
\* ManuallyRevoked: a row that SetPassword revoked never acquires a
\* replaced_by_token, and the replaced_by_token of a rotated-out row is never
\* overwritten.
C26_RowStateMachine ==
    [][\A t \in Tokens :
          /\ (ledger[t].revoked /\ ledger[t].replaced_by_token = NoToken)
                => ledger'[t].replaced_by_token = NoToken
          /\ ledger[t].replaced_by_token # NoToken
                => ledger'[t].replaced_by_token = ledger[t].replaced_by_token
          /\ ledger[t].revoked => ledger'[t] = ledger[t]]_vars

\* C29: a successful Refresh binds the subject of the new access token and the
\* user_id of the new row to the user_id of the presented row, and every row
\* has the user_id of the Login row it descends from.
C29_SameUser ==
    /\ \A t \in Tokens :
          ledger[t].parent # NoToken
            => /\ ledger[t].user_id = ledger[ledger[t].parent].user_id
               /\ ledger[t].user_id = ledger[Root(t)].user_id
    /\ (last.op = "Refresh" /\ last.code = "OK")
          => /\ last.access.sub = ledger[last.presented].user_id
             /\ ledger[last.refresh].user_id = ledger[last.presented].user_id
             /\ last.user = ledger[last.presented].user_id

C29_Witness ==
    /\ last.op = "Refresh" /\ last.code = "OK"
    /\ last.access.sub = 2
    /\ ledger[last.refresh].user_id = 2
    /\ \E t \in Tokens : ledger[t].user_id = 1

\* C22: no refresh token derived from the clock is ever stored in the ledger
\* or returned: when secure random generation fails the request fails and
\* inserts no row.
C22_NoTimeBasedToken ==
    /\ \A t \in Tokens : t[1] # "time"
    /\ last.refresh[1] # "time"

----------------------------------------------------------------------------
\* Properties of the gateway

UnderAdmin(path) == HasPrefix(path, AdminPrefix)

\* the token of a header of the form Bearer <token>
BearerOf(authz) == SplitN2(authz)[2]
WellFormed(authz) ==
    /\ Len(SplitN2(authz)) = 2
    /\ EqualFoldBearer(SplitN2(authz)[1])
    /\ Len(BearerOf(authz)) = 1 /\ BearerOf(authz)[1].k = "jwt"

\* the token is signed with the gateway's secret, HS256, not expired, has a
\* subject, and its role claim, if any, is a string
ValidAccess(tok, now) ==
    /\ tok.alg = "HS256" /\ tok.key = GatewaySecret
    /\ tok.role # NonStringRole
    /\ (tok.exp # NoExp => now < tok.exp)
    /\ tok.sub # NoUser

\* C8: a request under /v1/admin/ reaches the downstream handler only with a
\* validated access token whose role is admin.
C8_AdminOnly ==
    (gw.out.forwarded /\ UnderAdmin(gw.path))
        => /\ WellFormed(gw.authz)
           /\ ValidAccess(BearerOf(gw.authz)[1].tok, gw.now)
           /\ BearerOf(gw.authz)[1].tok.role = "admin"

\* C9: under /v1/admin/, a well-formed Bearer token that validates but is not
\* an administrator's is answered 403 and not forwarded; one that does not
\* validate is answered 401.
C9_ForbiddenNotUnauthorized ==
    (UnderAdmin(gw.path) /\ WellFormed(gw.authz))
        => LET tok == BearerOf(gw.authz)[1].tok IN
           IF ~ValidAccess(tok, gw.now)
           THEN gw.out.status = 401 /\ ~gw.out.forwarded
           ELSE tok.role # "admin" => gw.out.status = 403 /\ ~gw.out.forwarded

C9_Witness403 ==
    /\ UnderAdmin(gw.path) /\ WellFormed(gw.authz)
    /\ ValidAccess(BearerOf(gw.authz)[1].tok, gw.now)
    /\ BearerOf(gw.authz)[1].tok.role = ""
    /\ gw.out.status = 403

\* C10: the downstream call carries x-user-id, x-team-id or x-user-role only
\* when the middleware validated the request's access token.
C10_TrustHeadersOnlyValidated ==
    (gw.md.xUserId # NoUser \/ gw.md.xTeamId # NoTeam \/ gw.md.xUserRole # "")
        => gw.out.validated

IsPublic(path) == \E i \in 1..Len(PublicPaths) : HasPrefix(path, PublicPaths[i])

\* the header has the form Bearer <non-empty token>, scheme in any case
BearerForm(authz) ==
    /\ Len(SplitN2(authz)) = 2
    /\ EqualFoldBearer(SplitN2(authz)[1])
    /\ SplitN2(authz)[2] # <<>>

\* C11 as stated: a validated request's downstream call carries x-user-id equal
\* to the token's subject, x-team-id equal to its team_id exactly when that is
\* not empty, and x-user-role equal to the token's role claim.
C11_HeadersEqualClaims ==
    (gw.out.validated /\ gw.out.forwarded)
        => LET tok == BearerOf(gw.authz)[1].tok IN
           /\ gw.md.xUserId = tok.sub
           /\ gw.md.xTeamId = tok.team_id
           /\ gw.md.xUserRole = tok.role

\* C11 amended: as above, with x-user-role equal to the token's role claim,
\* or to user when the token carries no role claim.
C11_HeadersEqualClaimsDefaultUser ==
    (gw.out.validated /\ gw.out.forwarded)
        => LET tok == BearerOf(gw.authz)[1].tok IN
           /\ ~IsPublic(gw.path)
           /\ gw.md.xUserId = tok.sub
           /\ gw.md.xTeamId = tok.team_id
           /\ gw.md.xUserRole = IF tok.role = "" THEN "user" ELSE tok.role

C11_Witness ==
    /\ gw.out.validated /\ gw.out.forwarded
    /\ BearerOf(gw.authz)[1].tok.role = ""
    /\ gw.md.xTeamId \in Teams
    /\ gw.md.xUserRole = "user"

C13_MalformedRejected ==
    (gw # NoGw /\ ~IsPublic(gw.path) /\ gw.hasAuthz /\ ~BearerForm(gw.authz))
        => /\ gw.out.status = 401
           /\ ~gw.out.called
           /\ ~gw.out.forwarded

\* C14: a request under a public prefix reaches the downstream handler whatever
\* its Authorization header, without token validation and without identity in
\* its context.
C14_PublicBypass ==
    (gw # NoGw /\ IsPublic(gw.path))
        => /\ gw.out.forwarded
           /\ gw.out.status = 0
           /\ ~gw.out.called
           /\ ~gw.out.validated
           /\ gw.out.ctx = NoCtx

C14_Witness ==
    /\ gw # NoGw /\ IsPublic(gw.path)
    /\ gw.path # <<"/v1", "/auth", "/login">>
    /\ WellFormed(gw.authz)
    /\ ~ValidAccess(BearerOf(gw.authz)[1].tok, gw.now)
    /\ gw.out.forwarded

\* C31: every successful Login and Refresh sets a cookie whose value is the
\* refresh token of the response body and whose Expires is the expires_at of
\* that token's row; after Refresh the cookie carries the new token, never the
\* presented one.
C31_CookieCarriesToken ==
    (last.op \in {"Login", "Refresh"} /\ last.code = "OK") =>
        /\ last.setCookie.name = CookieName
        /\ last.setCookie.value = last.refresh
        /\ last.refresh \in Tokens
        /\ last.setCookie.expires = ledger[last.refresh].expires_at
        /\ last.op = "Refresh" => last.setCookie.value # last.presented

\* a successful Refresh at a later time than the Login of its session
C31_Witness ==
    /\ last.op = "Refresh" /\ last.code = "OK"
    /\ last.presented \in Tokens
    /\ ledger[last.presented].expires_at < last.setCookie.expires
    /\ last.setCookie.value = last.refresh

\* C32: a password change ends the sessions that existed before it also when
\* requests are in flight: a Login that verified the old password, or a Refresh
\* that passed the usability check on a row of the user, before SetPassword of
\* that user committed, leaves no usable refresh token when it completes.
C32_InFlightSessionsEnd ==
    [][(last'.op \in {"Login", "Refresh"} /\ last'.code = "OK")
          => LET overtaken ==
                     IF last'.op = "Login"
                     THEN written'[last'.user] # last'.password
                     ELSE last'.presented \in pwdRevoked'
             IN  overtaken => ~Usable(ledger'[last'.refresh], clock')]_vars

C34_ChainIntegrity ==
    \A t \in Tokens :
        ledger[t].replaced_by_token # NoToken
          => /\ ledger[t].revoked
             /\ ledger[t].replaced_by_token \in Tokens
             /\ ledger[ledger[t].replaced_by_token].user_id = ledger[t].user_id

\* the second user's row is rotated while a Refresh of a row of the first
\* user is in flight
C34_Witness ==
    /\ last.op = "Refresh" /\ last.code = "OK" /\ last.user = 2
    /\ ledger[last.presented].replaced_by_token = last.refresh
    /\ ledger[last.presented].revoked
    /\ \E p \in Procs : proc[p].pc = "refresh_checked" /\ proc[p].userID = 1

\* C35: a successful Login inserts exactly one row, with revoked = false, no
\* replaced_by_token and expires_at = now + refresh TTL, and changes no other
\* row, no credential and no profile; a user can hold several usable sessions.
C35_LoginFrame ==
    [][(last'.op = "Login" /\ last'.code = "OK")
          => /\ last'.refresh \notin DOMAIN ledger
             /\ DOMAIN ledger' = DOMAIN ledger \cup {last'.refresh}
             /\ ledger'[last'.refresh].user_id = last'.user
             /\ ~ledger'[last'.refresh].revoked
             /\ ledger'[last'.refresh].replaced_by_token = NoToken
             /\ ledger'[last'.refresh].expires_at = clock + RefreshTTL
             /\ \A t \in DOMAIN ledger : ledger'[t] = ledger[t]
             /\ creds' = creds
             /\ users' = users]_vars

\* a Login succeeds while another session of the same user is usable, and
\* both sessions are usable afterwards
C35_Witness ==
    /\ last.op = "Login" /\ last.code = "OK"
    /\ Usable(ledger[last.refresh], clock)
    /\ \E t \in Tokens \ {last.refresh} :
          /\ ledger[t].user_id = last.user
          /\ Root(t) # last.refresh
          /\ Usable(ledger[t], clock)

\* C36: CreateUser leaves no partial state: outside a CreateUser in flight
\* every profile has a credential, so after a failed CreateUser the name is
\* free for a later CreateUser and a Login for it is not answered NotFound
\* for good.
C36_NoPartialUser ==
    \A u \in users :
        \/ u.id \in DOMAIN creds
        \/ \E p \in Procs : proc[p].pc = "create_upstream" /\ proc[p].userID = u.id

\* C30: with one signing secret the gateway's validator and ValidateToken of
\* the session service accept the same tokens at the same times, and on
\* acceptance yield the same user_id and team_id.
C30_ValidatorsAgree ==
    (gw # NoGw /\ ~IsPublic(gw.path) /\ WellFormed(gw.authz) /\ GatewaySecret = JwtSecret)
        => LET tok == BearerOf(gw.authz)[1].tok
               v == ValidateToken(tok, gw.now)
               c == validateToken(BearerOf(gw.authz), gw.now)
           IN  /\ gw.out.validated <=> v.code = "OK"
               /\ c.ok <=> v.code = "OK"
               /\ c.ok => (c.Subject = v.user_id /\ c.TeamID = v.team_id)

====
